---- MODULE Spec2Model ----
(***************************************************************************)
(* Model of eaf_add_morphology.py (class EafProcessor): the splicing of a  *)
(* Tsakorpus morphological analysis into an ELAN annotation document.      *)
(*                                                                         *)
(* The document is the sequence of its TIER elements (document order), the *)
(* LINGUISTIC_TYPE declarations, the TIME_ORDER table and the              *)
(* lastUsedAnnotationId header property.  Every TIER element carries a uid *)
(* standing for the identity of the lxml element (TIER_ID values are plain *)
(* attribute strings and may coincide).  Texts that the code trims, folds  *)
(* or sorts, and all annotation values, are sequences of one-character    *)
(* strings; identifiers, tier names and type names are TLA+ strings.      *)
(* Times are integers in milliseconds.                                     *)
(***************************************************************************)
EXTENDS Integers, Sequences, FiniteSets, TLC

VARIABLES
    tiers,                 \* eafTree: the TIER elements, in document order
    lingTypes,             \* eafTree: the LINGUISTIC_TYPE elements, in document order
    timeOrder,             \* eafTree: TIME_ORDER/TIME_SLOT elements
    lastUsedAnnotationId,  \* eafTree: HEADER/PROPERTY[@NAME='lastUsedAnnotationId']
    analyzedSegments,      \* the list collect_analyzed_segments returns
    addLexTiers,           \* self.addLexTiers
    addGrammTiers,         \* self.addGrammTiers
    settings,              \* self.settings, reduced to lang_props[lang].gr_fields_order
    lastID,                \* self.lastID
    tlis,                  \* self.tlis
    pc,                    \* position of the running method
    tierQueue,             \* add_analyses: tiers of the xpath result still to visit
    participantID,         \* add_analyses: participantID
    totals,                \* add_analyses: nTokens, nWords, nAnalyzed
    cur,                   \* process_tier: tierNode, participant, handles, counters
    segQueue,              \* process_tier: segments of the xpath result still to visit
    iCurAnaSegment,        \* process_tier: iCurAnaSegment
    calls,                 \* history: one record per get_analysis_tiers call
    segLog,                \* history: one record per visited document segment
    anaIn,                 \* parse_ana: the analysis passed in
    anaOut                 \* parse_ana: the tag values of the returned gramm string

vars == << tiers, lingTypes, timeOrder, lastUsedAnnotationId, analyzedSegments,
           addLexTiers, addGrammTiers, settings, lastID, tlis, pc, tierQueue,
           participantID, totals, cur, segQueue, iCurAnaSegment, calls, segLog,
           anaIn, anaOut >>

docVars == << tiers, lingTypes, timeOrder, lastUsedAnnotationId >>

-----------------------------------------------------------------------------
(* Bounds of the model.                                                    *)

MaxSegs == 2        \* document segments per transcription tier
MaxAna == 2         \* entries of the analyzed-segment list
MaxCalls == 3       \* get_analysis_tiers / check_tier_types calls in SpecTiers
MaxAnalyses == 3    \* analyses of the word process_segment is given in SpecSegment
MaxSlots == 3       \* TIME_SLOT elements of the table in SpecTlis

-----------------------------------------------------------------------------
(* Program constants.                                                      *)

EAF_TIME_MULTIPLIER == 1000

\* The tolerance 0.1 of process_tier, in milliseconds.
MatchToleranceMs == 100

wordType == "words"
lemmaType == "lemma"
grammType == "gramm"
partsType == "morph"
glossType == "gloss"

-----------------------------------------------------------------------------
(* Strings as sequences of characters.                                     *)

\* ord() of the characters the model's texts are made of.
Ord(c) ==
    CASE c = " " -> 32
      [] c = "/" -> 47
      [] c = "A" -> 65
      [] c = "B" -> 66
      [] c = "P" -> 80
      [] c = "a" -> 97
      [] c = "b" -> 98
      [] c = "c" -> 99
      [] c = "e" -> 101
      [] c = "g" -> 103
      [] c = "i" -> 105
      [] c = "n" -> 110
      [] c = "o" -> 111
      [] c = "p" -> 112
      [] c = "r" -> 114
      [] c = "s" -> 115
      [] c = "u" -> 117

\* str.lower() on one character.
LowerChar(c) ==
    CASE c = "A" -> "a"
      [] c = "B" -> "b"
      [] c = "P" -> "p"
      [] OTHER -> c

\* str.lower()
Lower(s) == [i \in 1..Len(s) |-> LowerChar(s[i])]

RECURSIVE LStrip(_)
LStrip(s) == IF s # << >> /\ Head(s) = " " THEN LStrip(Tail(s)) ELSE s

RECURSIVE RStrip(_)
RStrip(s) ==
    IF s # << >> /\ s[Len(s)] = " " THEN RStrip(SubSeq(s, 1, Len(s) - 1)) ELSE s

\* str.strip()
Strip(s) == RStrip(LStrip(s))

\* s < t for Python strings (code point order).
RECURSIVE StrLess(_, _)
StrLess(s, t) ==
    IF t = << >> THEN FALSE
    ELSE IF s = << >> THEN TRUE
    ELSE IF Head(s) # Head(t) THEN Ord(Head(s)) < Ord(Head(t))
    ELSE StrLess(Tail(s), Tail(t))

\* sep.join(items)
RECURSIVE Join(_, _)
Join(items, sep) ==
    IF items = << >> THEN << >>
    ELSE IF Len(items) = 1 THEN items[1]
    ELSE items[1] \o sep \o Join(Tail(items), sep)

\* sorted(S) for a finite set S of strings.
RECURSIVE SortedStrings(_)
SortedStrings(S) ==
    IF S = {} THEN << >>
    ELSE LET m == CHOOSE x \in S : \A y \in S \ {x} : StrLess(x, y)
         IN  << m >> \o SortedStrings(S \ {m})

\* The elements of a sequence.
Range(s) == {s[i] : i \in 1..Len(s)}

\* list.insert(-1, el) / lxml _Element.insert(-1, el): before the last child.
InsertBeforeLast(s, el) ==
    IF s = << >> THEN << el >>
    ELSE SubSeq(s, 1, Len(s) - 1) \o << el, s[Len(s)] >>

\* list.insert(i, el) with 0 <= i <= len(s).
InsertAt(s, i, el) == SubSeq(s, 1, i) \o << el >> \o SubSeq(s, i + 1, Len(s))

-----------------------------------------------------------------------------
(* The annotation document.                                                *)

\* A TIER element.
TierEl(uid, id, type, parent, participant, annos) ==
    [uid |-> uid, TIER_ID |-> id, LINGUISTIC_TYPE_REF |-> type,
     PARENT_REF |-> parent, PARTICIPANT |-> participant, annos |-> annos]

\* An ALIGNABLE_ANNOTATION; text << >> is an empty ANNOTATION_VALUE (.text is None).
AlignableAnnotation(id, slot, text) ==
    [kind |-> "ALIGNABLE_ANNOTATION", ANNOTATION_ID |-> id, ANNOTATION_REF |-> "",
     PREVIOUS_ANNOTATION |-> "", TIME_SLOT_REF1 |-> slot, text |-> text]

\* The position of the element uid among the TIER elements.
TierIndex(ts, uid) == CHOOSE i \in 1..Len(ts) : ts[i].uid = uid

TierByUid(ts, uid) == ts[TierIndex(ts, uid)]

\* xpath TIER[@LINGUISTIC_TYPE_REF=type and @PARENT_REF=parent]: uids in document order.
RECURSIVE XPathTiers(_, _, _)
XPathTiers(ts, type, parent) ==
    IF ts = << >> THEN << >>
    ELSE (IF Head(ts).LINGUISTIC_TYPE_REF = type /\ Head(ts).PARENT_REF = parent
          THEN << Head(ts).uid >> ELSE << >>)
         \o XPathTiers(Tail(ts), type, parent)

\* tierParent.insert(tierParent.index(after) + 1, etree.XML(<TIER .../>))
InsertTierAfter(ts, afterUid, id, type, parent, participant) ==
    InsertAt(ts, TierIndex(ts, afterUid),
             TierEl(Len(ts) + 1, id, type, parent, participant, << >>))

-----------------------------------------------------------------------------
(* Tier hierarchy: get_analysis_tiers and check_tier_types.                *)

\* The names side tiers are configured with, in ascending str order.
SideTierNames == << "lex2", "trans_ru", "trans_ru2" >>

\* Rank of a side tier name under Python's str comparison.
NameRank(name) == CHOOSE i \in 1..Len(SideTierNames) : SideTierNames[i] = name

\* sorted(names, reverse=True)
RECURSIVE SortedReverse(_)
SortedReverse(names) ==
    IF names = << >> THEN << >>
    ELSE LET i == CHOOSE k \in 1..Len(names) :
                     /\ \A j \in 1..Len(names) : NameRank(names[j]) <= NameRank(names[k])
                     /\ \A j \in 1..(k - 1) : NameRank(names[j]) < NameRank(names[k])
         IN  << names[i] >>
             \o SortedReverse(SubSeq(names, 1, i - 1) \o SubSeq(names, i + 1, Len(names)))

\* The "if len(xTiers) <= 0: tierParent.insert(...)" step for one role of the
\* fixed chain, followed by the xpath query that fetches the handle.  c holds the
\* tiers and the handles found so far; the parent tier is the handle parentRole,
\* and a new tier is inserted right after it.
EnsureTier(c, role, type, parentRole, label, participant) ==
    LET parentID == TierByUid(c.tiers, c[parentRole]).TIER_ID
        ts1 == IF Len(XPathTiers(c.tiers, type, parentID)) <= 0
               THEN InsertTierAfter(c.tiers, c[parentRole], label \o "@" \o participant,
                                    type, parentID, participant)
               ELSE c.tiers
    IN  [c EXCEPT !.tiers = ts1, ![role] = XPathTiers(ts1, type, parentID)[1]]

\* dict[key] = value on a dict kept as a sequence of entries in insertion order.
DictPut(d, key, value) ==
    IF \E i \in 1..Len(d) : d[i].name = key
    THEN [i \in 1..Len(d) |-> IF d[i].name = key THEN [name |-> key, tier |-> value]
                              ELSE d[i]]
    ELSE Append(d, [name |-> key, tier |-> value])

\* The loops over sorted(self.addLexTiers, reverse=True) and
\* sorted(self.addGrammTiers, reverse=True): every name gets a new TIER element
\* right after the parent tier; the handle is the first xpath match.
RECURSIVE AddSideTiers(_, _, _, _, _, _)
AddSideTiers(ts, names, parentUid, parentID, participant, handles) ==
    IF names = << >> THEN [tiers |-> ts, handles |-> handles]
    ELSE LET name == Head(names)
             ts1 == InsertTierAfter(ts, parentUid, name \o "@" \o participant,
                                    name, parentID, participant)
             h == XPathTiers(ts1, name, parentID)[1]
         IN  AddSideTiers(ts1, Tail(names), parentUid, parentID, participant,
                          DictPut(handles, name, h))

\* One of the two side tier loops of get_analysis_tiers, under the handle parentRole.
EnsureSideTiers(c, role, names, parentRole, participant) ==
    LET r == AddSideTiers(c.tiers, SortedReverse(names), c[parentRole],
                          TierByUid(c.tiers, c[parentRole]).TIER_ID, participant, << >>)
    IN  [c EXCEPT !.tiers = r.tiers, ![role] = r.handles]

\* The tiers and the (empty) handles get_analysis_tiers starts from.
NoHandles(ts, tierNode) ==
    [tiers |-> ts, tierNode |-> tierNode, wordTier |-> 0, lemmaTier |-> 0,
     grammTier |-> 0, partsTier |-> 0, glossTier |-> 0,
     addLexTiers |-> << >>, addGrammTiers |-> << >>]

\* get_analysis_tiers(tierNode, participant): the tiers afterwards and the handles
\* returned.  The statements run in the order of the source: Word, Lemma, the
\* lexical side tiers, Grammar, Morph-parts, Gloss, the grammar side tiers.
GetAnalysisTiers(ts, tierNode, participant, lexNames, grammNames) ==
    EnsureSideTiers(
        EnsureTier(
            EnsureTier(
                EnsureTier(
                    EnsureSideTiers(
                        EnsureTier(
                            EnsureTier(NoHandles(ts, tierNode),
                                       "wordTier", wordType, "tierNode", "Words",
                                       participant),
                            "lemmaTier", lemmaType, "wordTier", "Lemma", participant),
                        "addLexTiers", lexNames, "lemmaTier", participant),
                    "grammTier", grammType, "lemmaTier", "Gramm", participant),
                "partsTier", partsType, "grammTier", "Morph", participant),
            "glossTier", glossType, "partsTier", "Gloss", participant),
        "addGrammTiers", grammNames, "grammTier", participant)

\* A LINGUISTIC_TYPE element.
LingType(constraint, id) == [CONSTRAINTS |-> constraint, LINGUISTIC_TYPE_ID |-> id]

\* tierAttrs of check_tier_types.
TierAttrs(lexNames, grammNames) ==
    << << "Symbolic_Subdivision", wordType >>,
       << "Symbolic_Subdivision", lemmaType >>,
       << "Symbolic_Subdivision", grammType >>,
       << "Symbolic_Association", partsType >>,
       << "Symbolic_Association", glossType >> >>
    \o [i \in 1..Len(lexNames) |-> << "Symbolic_Association", lexNames[i] >>]
    \o [i \in 1..Len(grammNames) |-> << "Symbolic_Association", grammNames[i] >>]

\* The loop of check_tier_types: a missing declaration is inserted right after
\* the last TIER element, that is before the declarations inserted so far.
RECURSIVE AddTierTypes(_, _)
AddTierTypes(lts, attrs) ==
    IF attrs = << >> THEN lts
    ELSE LET tierEl == {i \in 1..Len(lts) : lts[i].LINGUISTIC_TYPE_ID = Head(attrs)[2]}
         IN  AddTierTypes(IF Cardinality(tierEl) <= 0
                          THEN << LingType(Head(attrs)[1], Head(attrs)[2]) >> \o lts
                          ELSE lts,
                          Tail(attrs))

\* check_tier_types()
CheckTierTypes(lts, lexNames, grammNames) ==
    AddTierTypes(lts, TierAttrs(lexNames, grammNames))

-----------------------------------------------------------------------------
(* Analyses: group_ana and parse_ana.                                      *)

\* A JSON value that is a string (items has one element) or a list of strings.
Scalar(x) == [isList |-> FALSE, items |-> << x >>]
ListOf(xs) == [isList |-> TRUE, items |-> xs]

\* "if type(value) == list: value = sep.join(value)"
ValueText(v, sep) == IF v.isList THEN Join(v.items, sep) ELSE v.items[1]

\* The lemma key of group_ana: '/'.join(ana['lex']) for a list, ana['lex'] otherwise.
LexOf(ana) == IF ana.lex.isList THEN Join(ana.lex.items, << "/" >>) ELSE ana.lex.items[1]

\* The analyses of a sequence that satisfy lemma = LexOf, in their order.
RECURSIVE AnasWithLemma(_, _)
AnasWithLemma(anas, lemma) ==
    IF anas = << >> THEN << >>
    ELSE (IF LexOf(Head(anas)) = lemma THEN << Head(anas) >> ELSE << >>)
         \o AnasWithLemma(Tail(anas), lemma)

\* group_ana(word): lemma -> the word's analyses with that lemma, in their order.
GroupAna(word) ==
    [lemma \in {LexOf(word.ana[i]) : i \in 1..Len(word.ana)} |->
        AnasWithLemma(word.ana, lemma)]

\* KeyComp without the special case for a category named "pos".
KeyCompPosNotSpecial(p, st) ==
    IF ~st.configured THEN -1
    ELSE IF p[1] \notin Range(st.gr_fields_order) THEN Len(st.gr_fields_order)
         ELSE (CHOOSE i \in 1..Len(st.gr_fields_order) :
                  /\ st.gr_fields_order[i] = p[1]
                  /\ \A j \in 1..(i - 1) : st.gr_fields_order[j] # p[1]) - 1

\* key_comp(p) of parse_ana, p = (category, value); st is the language's setting.
KeyComp(p, st) ==
    IF ~st.configured THEN -1
    ELSE IF p[1] \notin Range(st.gr_fields_order)
         THEN (IF Lower(p[1]) = << "p", "o", "s" >> THEN -2 ELSE Len(st.gr_fields_order))
         ELSE (CHOOSE i \in 1..Len(st.gr_fields_order) :
                  /\ st.gr_fields_order[i] = p[1]
                  /\ \A j \in 1..(i - 1) : st.gr_fields_order[j] # p[1]) - 1

\* The elements of s whose key is k, in their order.
RECURSIVE WithKey(_, _, _)
WithKey(s, k, st) ==
    IF s = << >> THEN << >>
    ELSE (IF KeyComp(Head(s), st) = k THEN << Head(s) >> ELSE << >>)
         \o WithKey(Tail(s), k, st)

\* sorted(grValues, key=key_comp): stable, keys range over -2..len(gr_fields_order).
RECURSIVE SortedByKey(_, _, _)
SortedByKey(s, k, st) ==
    IF k > Len(st.gr_fields_order) THEN << >>
    ELSE WithKey(s, k, st) \o SortedByKey(s, k + 1, st)

\* grValues of parse_ana: (category, value) for the gr.* fields in sorted(ana) order.
GrValues(ana) ==
    LET cats == SortedStrings(DOMAIN ana.gr)
    IN  [i \in 1..Len(cats) |-> << cats[i], ValueText(ana.gr[cats[i]], << ",", " " >>) >>]

\* The (category, value) pairs in the order parse_ana concatenates them.
GrammOrder(ana, st) == SortedByKey(GrValues(ana), -2, st)

\* The loop "if len(gramm) > 0: gramm += ', '; gramm += fv[1]".
RECURSIVE GrammConcat(_, _)
GrammConcat(gramm, fvs) ==
    IF fvs = << >> THEN gramm
    ELSE GrammConcat((IF Len(gramm) > 0 THEN gramm \o << ",", " " >> ELSE gramm)
                        \o Head(fvs)[2],
                     Tail(fvs))

\* parse_ana(ana): gramm, parts, gloss
ParseAna(ana, st) ==
    [gramm |-> GrammConcat(<< >>, GrammOrder(ana, st)), parts |-> ana.parts,
     gloss |-> ana.gloss]

-----------------------------------------------------------------------------
(* Annotation building: create_dependent_annotation and process_segment.   *)

\* 'a' + str(n)
AnnId(n) == "a" \o ToString(n)

\* create_dependent_annotation(curID, parentID, prevID, text): the REF_ANNOTATION;
\* PREVIOUS_ANNOTATION "" is the attribute left out.  The text is escaped with
\* html.escape and unescaped again by the XML parser.
CreateDependentAnnotation(curID, parentID, prevID, text) ==
    [kind |-> "REF_ANNOTATION", ANNOTATION_ID |-> curID, ANNOTATION_REF |-> parentID,
     PREVIOUS_ANNOTATION |-> prevID, TIME_SLOT_REF1 |-> "", text |-> text]

\* One "tier.insert(-1, el)" of process_segment.
Ins(tier, el) == [tier |-> tier, el |-> el]

\* The loops over addLexTiers / addGrammTiers: one annotation, with a fresh
\* identifier, for every side tier whose name is a field of the analysis.
RECURSIVE SideInserts(_, _, _, _)
SideInserts(handles, ana, parentID, n) ==
    IF handles = << >> THEN << >>
    ELSE IF Head(handles).name \in DOMAIN ana.extra
         THEN << Ins(Head(handles).tier,
                     CreateDependentAnnotation(AnnId(n), parentID, "",
                         ValueText(ana.extra[Head(handles).name], << "/" >>))) >>
              \o SideInserts(Tail(handles), ana, parentID, n + 1)
         ELSE SideInserts(Tail(handles), ana, parentID, n)

\* The body of "for ana in anaByLemma[lemma]" for one analysis.
AnaInserts(ana, curLemmaID, prevGrammID, n, h, st) ==
    LET curGrammID == AnnId(n)
        curPartsID == AnnId(n + 1)
        curGlossID == AnnId(n + 2)
        r == ParseAna(ana, st)
    IN  << Ins(h.grammTier,
               CreateDependentAnnotation(curGrammID, curLemmaID, prevGrammID, r.gramm)),
           Ins(h.partsTier,
               CreateDependentAnnotation(curPartsID, curGrammID, "", r.parts)),
           Ins(h.glossTier,
               CreateDependentAnnotation(curGlossID, curPartsID, "", r.gloss)) >>
        \o SideInserts(h.addGrammTiers, ana, curGrammID, n + 3)

\* AnasInserts with prevGrammID never updated.
RECURSIVE AnasInsertsUnchained(_, _, _, _, _, _)
AnasInsertsUnchained(anas, curLemmaID, prevGrammID, n, h, st) ==
    IF anas = << >> THEN << >>
    ELSE LET e == AnaInserts(Head(anas), curLemmaID, prevGrammID, n, h, st)
         IN  e \o AnasInsertsUnchained(Tail(anas), curLemmaID, prevGrammID,
                                       n + Len(e), h, st)

\* "for ana in anaByLemma[lemma]"
RECURSIVE AnasInserts(_, _, _, _, _, _)
AnasInserts(anas, curLemmaID, prevGrammID, n, h, st) ==
    IF anas = << >> THEN << >>
    ELSE LET e == AnaInserts(Head(anas), curLemmaID, prevGrammID, n, h, st)
         IN  e \o AnasInserts(Tail(anas), curLemmaID, AnnId(n), n + Len(e), h, st)

\* The body of "for lemma in sorted(anaByLemma)" for one lemma.
LemmaInserts(lemma, anas, curWordID, prevLemmaID, n, h, st) ==
    LET curLemmaID == AnnId(n)
        side == SideInserts(h.addLexTiers, anas[1], curLemmaID, n + 1)
    IN  << Ins(h.lemmaTier,
               CreateDependentAnnotation(curLemmaID, curWordID, prevLemmaID,
                                         lemma)) >>
        \o side
        \o AnasInserts(anas, curLemmaID, "", n + 1 + Len(side), h, st)

\* "for lemma in sorted(anaByLemma)"
RECURSIVE LemmasInserts(_, _, _, _, _, _, _)
LemmasInserts(lemmas, anaByLemma, curWordID, prevLemmaID, n, h, st) ==
    IF lemmas = << >> THEN << >>
    ELSE LET e == LemmaInserts(Head(lemmas), anaByLemma[Head(lemmas)], curWordID,
                               prevLemmaID, n, h, st)
         IN  e \o LemmasInserts(Tail(lemmas), anaByLemma, curWordID, AnnId(n),
                                n + Len(e), h, st)

\* LemmaOrder with the lemmas in descending order.
LemmaOrderDescending(anaByLemma) ==
    [i \in 1..Cardinality(DOMAIN anaByLemma) |->
        SortedStrings(DOMAIN anaByLemma)[Cardinality(DOMAIN anaByLemma) + 1 - i]]

\* The order "for lemma in sorted(anaByLemma)" visits the lemmas in.
LemmaOrder(anaByLemma) == SortedStrings(DOMAIN anaByLemma)

\* The body of "for word in words" for one word.
WordInserts(word, segID, prevWordID, n, h, st) ==
    LET curWordID == AnnId(n)
        anaByLemma == GroupAna(word)
    IN  << Ins(h.wordTier,
               CreateDependentAnnotation(curWordID, segID, prevWordID, word.wf)) >>
        \o (IF word.wtype # "word" THEN << >>
            ELSE LemmasInserts(LemmaOrder(anaByLemma), anaByLemma, curWordID, "",
                               n + 1, h, st))

\* "for word in words"
RECURSIVE WordsInserts(_, _, _, _, _, _)
WordsInserts(words, segID, prevWordID, n, h, st) ==
    IF words = << >> THEN << >>
    ELSE LET e == WordInserts(Head(words), segID, prevWordID, n, h, st)
         IN  e \o WordsInserts(Tail(words), segID, AnnId(n), n + Len(e), h, st)

\* The tiers after the inserts, each "tier.insert(-1, el)" in turn.
RECURSIVE ApplyInserts(_, _)
ApplyInserts(ts, ins) ==
    IF ins = << >> THEN ts
    ELSE ApplyInserts(
            [i \in 1..Len(ts) |->
                IF ts[i].uid = Head(ins).tier
                THEN [ts[i] EXCEPT !.annos = InsertBeforeLast(@, Head(ins).el)]
                ELSE ts[i]],
            Tail(ins))

\* ProcessSegment leaving self.lastID at the last identifier it used.
ProcessSegmentReusingId(ts, n, segID, words, h, st) ==
    LET ins == WordsInserts(words, segID, "", n, h, st)
    IN  [tiers |-> ApplyInserts(ts, ins),
         lastID |-> IF ins = << >> THEN n ELSE n + Len(ins) - 1]

\* process_segment(segID, words, wordTier, ..., addGrammTiers): the tiers and
\* self.lastID afterwards; every insert takes one identifier.
ProcessSegment(ts, n, segID, words, h, st) ==
    LET ins == WordsInserts(words, segID, "", n, h, st)
    IN  [tiers |-> ApplyInserts(ts, ins), lastID |-> n + Len(ins)]

-----------------------------------------------------------------------------
(* Alignment: get_tlis and the matching loop of process_tier.              *)

\* The decimal digits.
DigitChars == << "0", "1", "2", "3", "4", "5", "6", "7", "8", "9" >>

\* The value of a decimal digit.
DigitValue(c) == (CHOOSE d \in 1..10 : DigitChars[d] = c) - 1

\* The decimal text of a natural number, as an XML attribute holds it.
RECURSIVE DecimalText(_)
DecimalText(n) ==
    IF n < 10 THEN << DigitChars[n + 1] >>
    ELSE DecimalText(n \div 10) \o << DigitChars[(n % 10) + 1] >>

\* A TIME_SLOT element with a TIME_VALUE in milliseconds.
TimeSlot(id, ms) == [TIME_SLOT_ID |-> id, TIME_VALUE |-> DecimalText(ms)]

\* A TIME_SLOT element without the TIME_VALUE attribute.
UntimedSlot(id) == [TIME_SLOT_ID |-> id]

\* timeValue of get_tlis: '' unless the slot has the attribute TIME_VALUE.
TimeValueOf(tli) == IF "TIME_VALUE" \in DOMAIN tli THEN tli.TIME_VALUE ELSE << >>

\* float(text) raises ValueError: the text is empty or has a character that is
\* no digit.
FloatRaises(text) == text = << >> \/ \E i \in 1..Len(text) : text[i] \notin Range(DigitChars)

\* float(text) of a text of digits.
RECURSIVE Float(_)
Float(text) ==
    IF text = << >> THEN 0
    ELSE 10 * Float(SubSeq(text, 1, Len(text) - 1)) + DigitValue(text[Len(text)])

\* get_tlis(srcTree) raises ValueError: float(timeValue) raises for some slot.
GetTlisRaises(order) == \E i \in 1..Len(order) : FloatRaises(TimeValueOf(order[i]))

\* get_tlis(srcTree) when it returns: slot id -> ordinal and time; the time
\* float(v) / 1000 seconds is kept in milliseconds.
GetTlis(order) ==
    [id \in {order[i].TIME_SLOT_ID : i \in 1..Len(order)} |->
        LET i == CHOOSE k \in 1..Len(order) :
                    /\ order[k].TIME_SLOT_ID = id
                    /\ \A j \in (k + 1)..Len(order) : order[j].TIME_SLOT_ID # id
        IN  [n |-> i - 1,
             time |-> (Float(TimeValueOf(order[i])) * 1000) \div EAF_TIME_MULTIPLIER]]

\* Matches with the upper bound of the time window left out.
MatchesNoUpperBound(anaSeg, segText, startTime) ==
    /\ Lower(Strip(anaSeg.text)) = segText
    /\ startTime - MatchToleranceMs <= anaSeg.start_time

\* The condition the while loop of process_tier negates: equal trimmed, lowered
\* texts and startTime - 0.1 <= start_time <= startTime + 0.1.
Matches(anaSeg, segText, startTime) ==
    /\ Lower(Strip(anaSeg.text)) = segText
    /\ startTime - MatchToleranceMs <= anaSeg.start_time
    /\ anaSeg.start_time <= startTime + MatchToleranceMs

\* AdvanceCursor searching from the start of the list instead of from the cursor.
AdvanceCursorRewound(segs, i, segText, startTime) ==
    LET first == {k \in 1..Len(segs) :
                     /\ Lower(Strip(segs[k].text)) = segText
                     /\ startTime - MatchToleranceMs <= segs[k].start_time
                     /\ segs[k].start_time <= startTime + MatchToleranceMs}
    IN  IF first = {} THEN Len(segs)
        ELSE (CHOOSE k \in first : \A m \in first : k <= m) - 1

\* The while loop of process_tier, entered with i < len(segs): the value of
\* iCurAnaSegment when it ends (len(segs) when the list is exhausted).
RECURSIVE AdvanceCursor(_, _, _, _)
AdvanceCursor(segs, i, segText, startTime) ==
    IF i >= Len(segs) THEN i
    ELSE IF Matches(segs[i + 1], segText, startTime) THEN i
    ELSE AdvanceCursor(segs, i + 1, segText, startTime)

\* sum(1 for word in words if word['wtype'] == 'word')
CountWords(words) == Cardinality({i \in 1..Len(words) : words[i].wtype = "word"})

\* The words counted as analyzed: of the word kind, with a non-empty 'ana' list
\* (every analysis of the model is a non-empty dict).
CountAnalyzed(words) ==
    Cardinality({i \in 1..Len(words) :
                    words[i].wtype = "word" /\ Len(words[i].ana) > 0})

\* The TIER_ID and LINGUISTIC_TYPE_REF values self.rxTiers matches ('tx@.*').
RxTiersMatches == {"tx@A", "tx@B"}

\* The test of add_analyses that selects a tier.
Selected(t) == t.TIER_ID \in RxTiersMatches \/ t.LINGUISTIC_TYPE_REF \in RxTiersMatches

\* The ALIGNABLE_ANNOTATION elements of a tier, in document order.
RECURSIVE Alignables(_)
Alignables(annos) ==
    IF annos = << >> THEN << >>
    ELSE (IF Head(annos).kind = "ALIGNABLE_ANNOTATION" THEN << Head(annos) >> ELSE << >>)
         \o Alignables(Tail(annos))

-----------------------------------------------------------------------------
(* Inputs.                                                                 *)

NoFields == [x \in {} |-> x]

Analysis(lex, gloss, gr, extra) ==
    [lex |-> lex, parts |-> << "p" >> \o gloss, gloss |-> gloss, gr |-> gr,
     extra |-> extra]

CatPos == << "p", "o", "s" >>
CatPosUpper == << "P", "o", "s" >>
CatCase == << "c", "a", "s", "e" >>
CatNum == << "n", "u", "n" >>

\* The analyzed words of the segments whose text is "a": a word with three
\* analyses (lemmas "b", the list ["a", "b"], "b") and a punctuation token.
WordsA ==
    << [wf |-> << "a" >>, wtype |-> "word",
        ana |-> << Analysis(Scalar(<< "b" >>), << "1" >>,
                            (CatPos :> Scalar(<< "N" >>)) @@ (CatCase :> Scalar(<< "c" >>)),
                            ("trans_ru" :> Scalar(<< "r" >>))),
                   Analysis(ListOf(<< << "a" >>, << "b" >> >>), << "2" >>,
                            (CatNum :> ListOf(<< << "s" >>, << "p" >> >>)),
                            ("lex2" :> ListOf(<< << "x" >>, << "y" >> >>))),
                   Analysis(Scalar(<< "b" >>), << "3" >>, NoFields, NoFields) >>],
       [wf |-> << "." >>, wtype |-> "punct", ana |-> << >>] >>

\* The analyzed words of the segments whose text is "b": a word without analyses.
WordsB == << [wf |-> << "B" >>, wtype |-> "word", ana |-> << >>] >>

\* An entry of the analyzed-segment list.
AnalyzedSegment(ms, text, words) == [start_time |-> ms, text |-> text, words |-> words]

AnaChoices ==
    {AnalyzedSegment(ms, << " ", "a" >>, WordsA) : ms \in {2050, 2200}}
    \cup {AnalyzedSegment(ms, << "B" >>, WordsB) : ms \in {2050, 2200}}

\* The analyzed-segment lists: 1..MaxAna entries in ascending start time.
AnaLists ==
    {l \in UNION {[1..k -> AnaChoices] : k \in 1..MaxAna} :
        \A i \in 1..(Len(l) - 1) : l[i].start_time <= l[i + 1].start_time}

\* The segment texts of a document: "A " (trimmed and lowered to "a"), "b", and
\* an empty ANNOTATION_VALUE.
SegTexts == {<< "A", " " >>, << "b" >>}
SegTextsOrNone == SegTexts \cup {<< >>}

\* The k-th segment of a tier starts at time slot ts<k>, 2.0 s + (k - 1) * 0.1 s.
SlotId(k) == "ts" \o ToString(k)
SlotTimes == [k \in 1..MaxSegs |-> TimeSlot(SlotId(k), 2000 + 100 * (k - 1))]

\* The TIME_ORDER table of a document: the slots of the segments, and possibly a
\* slot without a time value that no segment refers to.
TimeOrderChoices == {SlotTimes, Append(SlotTimes, UntimedSlot(SlotId(MaxSegs + 1)))}

Participants == {"", "SP1"}

\* The first transcription tier has 1..MaxSegs segments with a text.
FirstTierChoices ==
    [participant : Participants, texts : UNION {[1..k -> SegTexts] : k \in 1..MaxSegs}]

\* A second transcription tier, when there is one, has one segment.
SecondTierChoices == [participant : Participants, texts : [1..1 -> SegTextsOrNone]]

\* A document has one or two transcription tiers.
DocChoices ==
    {<< t >> : t \in FirstTierChoices}
    \cup {<< t, u >> : t \in FirstTierChoices, u \in SecondTierChoices}

TranscriptionTierIds == << "tx@A", "tx@B" >>

\* The number of segments of the tiers before tier i.
RECURSIVE SegsBefore(_, _)
SegsBefore(doc, i) == IF i <= 1 THEN 0 ELSE SegsBefore(doc, i - 1) + Len(doc[i - 1].texts)

\* The TIER elements of a document: the transcription tiers, their segments
\* numbered a1, a2, ... in document order, and a translation tier no pattern selects.
DocTiers(doc) ==
    [i \in 1..Len(doc) |->
        TierEl(i, TranscriptionTierIds[i], "tx", "", doc[i].participant,
               [k \in 1..Len(doc[i].texts) |->
                   AlignableAnnotation(AnnId(SegsBefore(doc, i) + k), SlotId(k),
                                       doc[i].texts[k])])]
    \o << TierEl(Len(doc) + 1, "ft@A", "ft", "", "", << >>) >>

\* The LINGUISTIC_TYPE declarations of an unprocessed document.
DocLingTypes == << LingType("", "tx"), LingType("", "ft") >>

DefaultSettings == [configured |-> TRUE, gr_fields_order |-> << CatCase >>]

NoTier == [tierNode |-> 0, participant |-> "", wordTier |-> 0, lemmaTier |-> 0,
           grammTier |-> 0, partsTier |-> 0, glossTier |-> 0,
           addLexTiers |-> << >>, addGrammTiers |-> << >>,
           nTokens |-> 0, nWords |-> 0, nAnalyzed |-> 0]

NoTotals == [nTokens |-> 0, nWords |-> 0, nAnalyzed |-> 0]

-----------------------------------------------------------------------------
(* Processing one document: process_corpus (the part for one file),        *)
(* add_analyses and process_tier.                                          *)

Init ==
    /\ \E doc \in DocChoices :
          /\ tiers = DocTiers(doc)
          /\ lastUsedAnnotationId = SegsBefore(doc, Len(doc) + 1)
    /\ lingTypes = DocLingTypes
    /\ timeOrder \in TimeOrderChoices
    /\ analyzedSegments \in AnaLists
    /\ addLexTiers = << "lex2" >>
    /\ addGrammTiers = << "trans_ru" >>
    /\ settings = DefaultSettings
    /\ lastID = 0
    /\ tlis = << >>
    /\ pc = "start"
    /\ tierQueue = << >>
    /\ participantID = 1
    /\ totals = NoTotals
    /\ cur = NoTier
    /\ segQueue = << >>
    /\ iCurAnaSegment = 0
    /\ calls = << >>
    /\ segLog = << >>
    /\ anaIn = << >>
    /\ anaOut = << >>

\* process_corpus sets self.lastID from the header; add_analyses builds the time
\* index, declares the tier types and queries the TIER elements to visit.
AddAnalysesStart ==
    /\ pc = "start"
    /\ ~GetTlisRaises(timeOrder)
    /\ lastID' = lastUsedAnnotationId + 1
    /\ tlis' = GetTlis(timeOrder)
    /\ lingTypes' = CheckTierTypes(lingTypes, addLexTiers, addGrammTiers)
    /\ participantID' = 1
    /\ totals' = NoTotals
    /\ tierQueue' = [i \in 1..Len(tiers) |-> tiers[i].uid]
    /\ pc' = "tiers"
    /\ UNCHANGED << tiers, timeOrder, lastUsedAnnotationId, analyzedSegments,
                    addLexTiers, addGrammTiers, settings, cur, segQueue,
                    iCurAnaSegment, calls, segLog, anaIn, anaOut >>

\* get_tlis raises ValueError: nothing catches it, add_analyses and process_corpus
\* end with the document as it was read.
AddAnalysesRaises ==
    /\ pc = "start"
    /\ GetTlisRaises(timeOrder)
    /\ lastID' = lastUsedAnnotationId + 1
    /\ pc' = "ValueError"
    /\ UNCHANGED << docVars, analyzedSegments, addLexTiers, addGrammTiers, settings,
                    tlis, tierQueue, participantID, totals, cur, segQueue,
                    iCurAnaSegment, calls, segLog, anaIn, anaOut >>

\* The loop of add_analyses meets a tier the pattern does not select.
SkipTier ==
    /\ pc = "tiers"
    /\ tierQueue # << >>
    /\ ~Selected(TierByUid(tiers, Head(tierQueue)))
    /\ tierQueue' = Tail(tierQueue)
    /\ UNCHANGED << docVars, analyzedSegments, addLexTiers, addGrammTiers, settings,
                    lastID, tlis, pc, participantID, totals, cur, segQueue,
                    iCurAnaSegment, calls, segLog, anaIn, anaOut >>

\* The participant label add_analyses passes to process_tier.
ParticipantOf(t, pid) ==
    IF Len(t.PARTICIPANT) <= 0 THEN "SP" \o ToString(pid) ELSE t.PARTICIPANT

\* process_tier up to its loop: the handles of get_analysis_tiers, the counters
\* at zero and the tier's segments.
StartTier(tierNode, participant, h) ==
    /\ tiers' = h.tiers
    /\ cur' = [tierNode |-> tierNode.uid, participant |-> participant,
               wordTier |-> h.wordTier, lemmaTier |-> h.lemmaTier,
               grammTier |-> h.grammTier, partsTier |-> h.partsTier,
               glossTier |-> h.glossTier, addLexTiers |-> h.addLexTiers,
               addGrammTiers |-> h.addGrammTiers,
               nTokens |-> 0, nWords |-> 0, nAnalyzed |-> 0]
    /\ segQueue' = Alignables(tierNode.annos)
    /\ iCurAnaSegment' = 0

\* The loop of add_analyses meets a selected tier: process_tier starts, calls
\* get_analysis_tiers and queries the tier's segments.
EnterTierWith(tierNode, participant) ==
    /\ Selected(tierNode)
    /\ participantID' = IF Len(tierNode.PARTICIPANT) <= 0
                        THEN participantID + 1 ELSE participantID
    /\ StartTier(tierNode, participant,
                 GetAnalysisTiers(tiers, tierNode.uid, participant, addLexTiers,
                                  addGrammTiers))

EnterTier ==
    /\ pc = "tiers"
    /\ tierQueue # << >>
    /\ EnterTierWith(TierByUid(tiers, Head(tierQueue)),
                     ParticipantOf(TierByUid(tiers, Head(tierQueue)), participantID))
    /\ pc' = "segments"
    /\ UNCHANGED << lingTypes, timeOrder, lastUsedAnnotationId, analyzedSegments,
                    addLexTiers, addGrammTiers, settings, lastID, tlis, tierQueue,
                    totals, calls, segLog, anaIn, anaOut >>

\* SegmentOutcome with the cursor put back where it was after a miss.
SegmentOutcomeCursorKept(segNode, i, segs, tl) ==
    IF i >= Len(segs) THEN [outcome |-> "exhausted", cursor |-> i]
    ELSE IF segNode.text = << >> THEN [outcome |-> "notext", cursor |-> i]
    ELSE LET j == AdvanceCursor(segs, i, Lower(Strip(segNode.text)),
                                tl[segNode.TIME_SLOT_REF1].time)
         IN  IF j >= Len(segs) THEN [outcome |-> "miss", cursor |-> i]
             ELSE [outcome |-> "match", cursor |-> j]

\* What one pass of the loop "for segNode in ..." of process_tier does with the
\* segment: the cursor afterwards and the outcome.
SegmentOutcome(segNode, i, segs, tl) ==
    IF i >= Len(segs) THEN [outcome |-> "exhausted", cursor |-> i]
    ELSE IF segNode.text = << >> THEN [outcome |-> "notext", cursor |-> i]
    ELSE LET j == AdvanceCursor(segs, i, Lower(Strip(segNode.text)),
                                tl[segNode.TIME_SLOT_REF1].time)
         IN  IF j >= Len(segs) THEN [outcome |-> "miss", cursor |-> j]
             ELSE [outcome |-> "match", cursor |-> j]

\* The words process_tier hands to process_segment (none when it skips the segment).
OutcomeWords(o, segs) == IF o.outcome = "match" THEN segs[o.cursor + 1].words ELSE << >>

\* The rest of a pass: the counters, process_segment for the words, the history.
SegmentEffect(segNode, o, words, r) ==
    /\ iCurAnaSegment' = o.cursor
    /\ tiers' = r.tiers
    /\ lastID' = r.lastID
    /\ cur' = [cur EXCEPT !.nTokens = @ + Len(words),
                          !.nWords = @ + CountWords(words),
                          !.nAnalyzed = @ + CountAnalyzed(words)]
    /\ segLog' = Append(segLog,
           [seg |-> segNode.ANNOTATION_ID, tier |-> cur.tierNode,
            outcome |-> o.outcome,
            ana |-> IF o.outcome = "match" THEN o.cursor ELSE -1,
            firstID |-> lastID, nextID |-> r.lastID,
            before |-> << cur.nTokens, cur.nWords, cur.nAnalyzed >>,
            after |-> << cur.nTokens + Len(words), cur.nWords + CountWords(words),
                         cur.nAnalyzed + CountAnalyzed(words) >>])

SegmentWords(segNode, o, words) ==
    SegmentEffect(segNode, o, words,
                  IF o.outcome = "match"
                  THEN ProcessSegment(tiers, lastID, segNode.ANNOTATION_ID, words, cur,
                                      settings)
                  ELSE [tiers |-> tiers, lastID |-> lastID])

SegmentPass(segNode, o) == SegmentWords(segNode, o, OutcomeWords(o, analyzedSegments))

\* One pass of the loop "for segNode in ..." of process_tier, process_segment
\* included.
SegmentStep ==
    /\ pc = "segments"
    /\ segQueue # << >>
    /\ SegmentPass(Head(segQueue),
                   SegmentOutcome(Head(segQueue), iCurAnaSegment, analyzedSegments, tlis))
    /\ segQueue' = Tail(segQueue)
    /\ UNCHANGED << lingTypes, timeOrder, lastUsedAnnotationId, analyzedSegments,
                    addLexTiers, addGrammTiers, settings, tlis, pc, tierQueue,
                    participantID, totals, calls, anaIn, anaOut >>

\* process_tier returns its counters; add_analyses adds them and moves on.
LeaveTier ==
    /\ pc = "segments"
    /\ segQueue = << >>
    /\ totals' = [nTokens |-> totals.nTokens + cur.nTokens,
                  nWords |-> totals.nWords + cur.nWords,
                  nAnalyzed |-> totals.nAnalyzed + cur.nAnalyzed]
    /\ tierQueue' = Tail(tierQueue)
    /\ pc' = "tiers"
    /\ UNCHANGED << docVars, analyzedSegments, addLexTiers, addGrammTiers, settings,
                    lastID, tlis, participantID, cur, segQueue, iCurAnaSegment,
                    calls, segLog, anaIn, anaOut >>

\* The end of add_analyses: the header property is set to str(self.lastID - 1).
AddAnalysesEnd ==
    /\ pc = "tiers"
    /\ tierQueue = << >>
    /\ lastUsedAnnotationId' = lastID - 1
    /\ pc' = "done"
    /\ UNCHANGED << tiers, lingTypes, timeOrder, analyzedSegments, addLexTiers,
                    addGrammTiers, settings, lastID, tlis, tierQueue, participantID,
                    totals, cur, segQueue, iCurAnaSegment, calls, segLog, anaIn,
                    anaOut >>

Next ==
    \/ AddAnalysesStart
    \/ AddAnalysesRaises
    \/ SkipTier
    \/ EnterTier
    \/ SegmentStep
    \/ LeaveTier
    \/ AddAnalysesEnd

Spec == Init /\ [][Next]_vars

-----------------------------------------------------------------------------
(* Properties of the alignment (process_tier).                             *)

AllAnnotations == UNION {Range(tiers[i].annos) : i \in 1..Len(tiers)}

\* The document segment with the identifier id.
SegNodeOf(id) ==
    CHOOSE a \in AllAnnotations : a.kind = "ALIGNABLE_ANNOTATION" /\ a.ANNOTATION_ID = id

SegStartOf(id) == tlis[SegNodeOf(id).TIME_SLOT_REF1].time

\* Some entry of the analyzed-segment list has the segment's trimmed, case-folded
\* text and a start time within 0.1 s of the segment's.
Matchable(id) ==
    /\ SegNodeOf(id).text # << >>
    /\ \E k \in 1..Len(analyzedSegments) :
          /\ Lower(Strip(analyzedSegments[k].text)) = Lower(Strip(SegNodeOf(id).text))
          /\ analyzedSegments[k].start_time - SegStartOf(id) \in -100..100

\* C1: any two distinct document segments that are both matched are matched to
\* different entries of the analyzed-segment list.
C1_ConsumedOnce ==
    \A i, j \in 1..Len(segLog) :
        (i < j /\ segLog[i].outcome = "match" /\ segLog[j].outcome = "match")
            => segLog[i].ana # segLog[j].ana

\* C2: after a segment of a tier that no analyzed segment matches, a later segment
\* of the same tier for which a matching analyzed segment exists is still matched.
C2_MissIsLocal ==
    \A i, j \in 1..Len(segLog) :
        (/\ i < j
         /\ segLog[i].tier = segLog[j].tier
         /\ segLog[i].outcome = "miss"
         /\ ~Matchable(segLog[i].seg)
         /\ Matchable(segLog[j].seg))
            => segLog[j].outcome = "match"

\* The annotations that refer to the annotation id as their parent.
AnnotationsUnder(id) ==
    {a \in AllAnnotations : a.kind = "REF_ANNOTATION" /\ a.ANNOTATION_REF = id}

\* C2 as the code keeps it: a segment of a tier that is not matched gets no
\* annotation, and once the search for a segment has run through the whole
\* analyzed-segment list, every later segment of the same tier is skipped without
\* a search and gets no annotation either; the search starts again with the next
\* tier.
C2_MissAbandonsTier ==
    \A i \in 1..Len(segLog) :
        /\ segLog[i].outcome # "match" =>
              /\ AnnotationsUnder(segLog[i].seg) = {}
              /\ segLog[i].nextID = segLog[i].firstID
        /\ segLog[i].outcome = "miss" =>
              \A j \in (i + 1)..Len(segLog) :
                  segLog[j].tier = segLog[i].tier => segLog[j].outcome = "exhausted"

\* A segment no entry matches is followed in its tier by a segment that an entry
\* matches and that is skipped, and a segment of the next tier is matched.
C2_Witness ==
    \E i, j, k \in 1..Len(segLog) :
        /\ i < j /\ j < k
        /\ segLog[i].tier = segLog[j].tier
        /\ segLog[k].tier # segLog[i].tier
        /\ segLog[i].outcome = "miss"
        /\ ~Matchable(segLog[i].seg)
        /\ Matchable(segLog[j].seg)
        /\ segLog[j].outcome = "exhausted"
        /\ AnnotationsUnder(segLog[j].seg) = {}
        /\ segLog[k].outcome = "match"

\* C7 as claimed: for any two matched document segments, the earlier one in the
\* document (same tier or an earlier tier) is matched to an entry that is not
\* later in the list than the entry of the later one.
C7_OrderPreservedInDocument ==
    \A i, j \in 1..Len(segLog) :
        (i < j /\ segLog[i].outcome = "match" /\ segLog[j].outcome = "match")
            => segLog[i].ana <= segLog[j].ana

\* C7 as amended: for any two matched document segments of the same tier, the
\* earlier one is matched to an entry that is not later in the list than the
\* entry of the later one; the cursor starts again at 0 for every tier.
C7_OrderPreservedInTier ==
    /\ \A i, j \in 1..Len(segLog) :
          (/\ i < j
           /\ segLog[i].tier = segLog[j].tier
           /\ segLog[i].outcome = "match"
           /\ segLog[j].outcome = "match")
              => segLog[i].ana <= segLog[j].ana
    /\ (pc = "segments" /\ segLog # << >> /\ segLog[Len(segLog)].tier = cur.tierNode
        /\ segLog[Len(segLog)].outcome = "match")
           => segLog[Len(segLog)].ana <= iCurAnaSegment

\* Two segments of one tier matched to different entries of the list.
C7_Witness ==
    \E i, j \in 1..Len(segLog) :
        /\ i < j
        /\ segLog[i].tier = segLog[j].tier
        /\ segLog[i].outcome = "match"
        /\ segLog[j].outcome = "match"
        /\ segLog[i].ana < segLog[j].ana

-----------------------------------------------------------------------------
(* Properties of the annotation graph (process_segment).                   *)

\* The dependent annotations of the document, each with the uid of its tier.
Dependents ==
    UNION {{[tier |-> tiers[i].uid, a |-> tiers[i].annos[k]] :
               k \in {m \in 1..Len(tiers[i].annos) :
                         tiers[i].annos[m].kind = "REF_ANNOTATION"}} :
           i \in 1..Len(tiers)}

\* The counter value n of an identifier 'a<n>'.
IdNum(id) == CHOOSE n \in 0..(lastID + lastUsedAnnotationId) : AnnId(n) = id

\* C4: every dependent annotation's ANNOTATION_REF is the identifier of an
\* annotation in the tier named by its own tier's PARENT_REF (invariant I1): every
\* tier that holds dependent annotations has a parent tier, a tier whose TIER_ID
\* is its PARENT_REF, and that tier holds the parent of each of its annotations.
C4_ParentInParentTier ==
    \A i \in 1..Len(tiers) :
        (\E a \in Range(tiers[i].annos) : a.kind = "REF_ANNOTATION")
            => \E j \in 1..Len(tiers) :
                  /\ tiers[j].TIER_ID = tiers[i].PARENT_REF
                  /\ \A a \in Range(tiers[i].annos) :
                        \E b \in Range(tiers[j].annos) :
                            b.ANNOTATION_ID = a.ANNOTATION_REF

\* The weaker statement the code does satisfy: the parent of every dependent
\* annotation is in some tier whose TIER_ID is the PARENT_REF of its tier.
I1_ParentInSomeTierNamed ==
    \A d \in Dependents :
        \E i \in 1..Len(tiers) :
            /\ tiers[i].TIER_ID = TierByUid(tiers, d.tier).PARENT_REF
            /\ \E b \in Range(tiers[i].annos) : b.ANNOTATION_ID = d.a.ANNOTATION_REF

\* The dependent annotations of one tier that share the parent ref.
Siblings(t, ref) ==
    {a \in Range(t.annos) : a.kind = "REF_ANNOTATION" /\ a.ANNOTATION_REF = ref}

\* S is a linked list through PREVIOUS_ANNOTATION in creation order: one element
\* without a previous reference, every other one referring to the sibling created
\* just before it, no element referred to twice.
IsChain(S) ==
    /\ Cardinality({a.ANNOTATION_ID : a \in S}) = Cardinality(S)
    /\ Cardinality({a \in S : a.PREVIOUS_ANNOTATION = ""}) = 1
    /\ \A a \in S :
          a.PREVIOUS_ANNOTATION # "" =>
              /\ \E b \in S :
                    /\ b.ANNOTATION_ID = a.PREVIOUS_ANNOTATION
                    /\ IdNum(b.ANNOTATION_ID) < IdNum(a.ANNOTATION_ID)
                    /\ ~\E c \in S :
                          /\ IdNum(b.ANNOTATION_ID) < IdNum(c.ANNOTATION_ID)
                          /\ IdNum(c.ANNOTATION_ID) < IdNum(a.ANNOTATION_ID)
    /\ \A a, b \in S :
          (a.ANNOTATION_ID # b.ANNOTATION_ID /\ a.PREVIOUS_ANNOTATION # "")
              => a.PREVIOUS_ANNOTATION # b.PREVIOUS_ANNOTATION

\* C5: in every tier, the dependent annotations that share one parent annotation
\* form a linked list through PREVIOUS_ANNOTATION that reconstructs their creation
\* order (invariant I2).
C5_SiblingChains ==
    \A i \in 1..Len(tiers) :
        \A a \in Range(tiers[i].annos) :
            a.kind = "REF_ANNOTATION" => IsChain(Siblings(tiers[i], a.ANNOTATION_REF))

\* A processed document in which some parent has two or more dependents in a
\* Grammar tier and some parent has two or more in a Word tier.
C5_Witness ==
    /\ pc = "done"
    /\ \E i, j \in 1..Len(tiers) :
          /\ tiers[i].LINGUISTIC_TYPE_REF = grammType
          /\ tiers[j].LINGUISTIC_TYPE_REF = wordType
          /\ \E a \in Range(tiers[i].annos) :
                Cardinality(Siblings(tiers[i], a.ANNOTATION_REF)) >= 2
          /\ \E a \in Range(tiers[j].annos) :
                Cardinality(Siblings(tiers[j], a.ANNOTATION_REF)) >= 2

-----------------------------------------------------------------------------
(* Properties of the identifier allocation.                                *)

\* The number of annotations of the document, counted per position.
AnnotationCount ==
    Cardinality(UNION {{<< i, k >> : k \in 1..Len(tiers[i].annos)} : i \in 1..Len(tiers)})

AllIds == {a.ANNOTATION_ID : a \in AllAnnotations}

IssuedIds == {d.a.ANNOTATION_ID : d \in Dependents}

\* While the document is processed the new annotations carry exactly the
\* identifiers 'a<k>' for the counter values k from the recorded
\* lastUsedAnnotationId + 1 up to self.lastID - 1, each once, and no two
\* annotations of the document share an identifier.
IdsIssuedOnce ==
    /\ AnnotationCount = Cardinality(AllIds)
    /\ pc \in {"tiers", "segments"} =>
          /\ IssuedIds = {AnnId(k) : k \in (lastUsedAnnotationId + 1)..(lastID - 1)}
          /\ Cardinality(Dependents) = lastID - 1 - lastUsedAnnotationId

\* The step that writes lastUsedAnnotationId back sets it to the largest counter
\* value issued, and leaves the recorded value when none was issued.
WriteBackIsMax ==
    (pc # "done" /\ pc' = "done") =>
        /\ IssuedIds = {} => lastUsedAnnotationId' = lastUsedAnnotationId
        /\ IssuedIds # {} =>
              /\ AnnId(lastUsedAnnotationId') \in IssuedIds
              /\ \A id \in IssuedIds : IdNum(id) <= lastUsedAnnotationId'

\* C6: identifiers are 'a' followed by consecutive counter values starting at the
\* recorded lastUsedAnnotationId + 1, each issued once, so no two annotations share
\* an identifier; the value written back is the largest one issued (I3, I4).
C6_IdentifierAllocation == [](IdsIssuedOnce) /\ [][WriteBackIsMax]_vars

\* A processed document with new annotations under segments of two tiers.
C6_Witness ==
    /\ pc = "done"
    /\ \E i, j \in 1..Len(segLog) :
          /\ segLog[i].tier # segLog[j].tier
          /\ segLog[i].nextID > segLog[i].firstID
          /\ segLog[j].nextID > segLog[j].firstID
    /\ AnnId(lastUsedAnnotationId) \in IssuedIds

-----------------------------------------------------------------------------
(* The match criterion and its effect.                                     *)

\* The annotations of the whole document whose parent is ref, with their tiers.
ChildrenOf(ref) == {d \in Dependents : d.a.ANNOTATION_REF = ref}

\* The i-th (from 1) element of a chain S in creation order.
ChainElement(S, i) ==
    CHOOSE a \in S :
        Cardinality({b \in S : IdNum(b.ANNOTATION_ID) < IdNum(a.ANNOTATION_ID)}) = i - 1

\* C9: a segment is matched only to an entry with the same trimmed, case-folded
\* text and a start time within 0.1 s, bounds included, and the first entry of the
\* list is taken when it is such an entry; a segment matched to an entry with n
\* words has exactly n annotations under it, all in the Word tier of its tier and
\* chained in the order of the words; a segment that is not matched has no
\* annotation under it and leaves the three counters as they were.
C9_MatchCriterion ==
    \A e \in 1..Len(segLog) :
        LET l == segLog[e]
            first == \A d \in 1..(e - 1) : segLog[d].tier # l.tier
        IN  /\ l.outcome = "match" =>
                 LET s == analyzedSegments[l.ana + 1]
                     W == {d.a : d \in ChildrenOf(l.seg)}
                 IN  /\ Lower(Strip(s.text)) = Lower(Strip(SegNodeOf(l.seg).text))
                     /\ s.start_time - SegStartOf(l.seg) \in -100..100
                     /\ Cardinality(ChildrenOf(l.seg)) = Len(s.words)
                     /\ \A d \in ChildrenOf(l.seg) :
                           /\ TierByUid(tiers, d.tier).LINGUISTIC_TYPE_REF = wordType
                           /\ TierByUid(tiers, d.tier).PARENT_REF
                                 = TierByUid(tiers, l.tier).TIER_ID
                     /\ W # {} => IsChain(W)
                     /\ \A i \in 1..Len(s.words) :
                           ChainElement(W, i).text = s.words[i].wf
            /\ l.outcome # "match" =>
                 /\ ChildrenOf(l.seg) = {}
                 /\ l.after = l.before
            /\ (/\ first
                /\ Matchable(l.seg)
                /\ Lower(Strip(analyzedSegments[1].text))
                      = Lower(Strip(SegNodeOf(l.seg).text))
                /\ analyzedSegments[1].start_time - SegStartOf(l.seg) \in -100..100)
                   => l.outcome = "match" /\ l.ana = 0

\* The segment at 2.00 s matched to an entry at 2.05 s with two words, and, in
\* the same run, a segment at 2.00 s of another tier not matched to it.
C9_Witness ==
    \E e, f \in 1..Len(segLog) :
        /\ segLog[e].outcome = "match"
        /\ SegStartOf(segLog[e].seg) = 2000
        /\ analyzedSegments[segLog[e].ana + 1].start_time = 2050
        /\ Len(analyzedSegments[segLog[e].ana + 1].words) = 2
        /\ Cardinality(ChildrenOf(segLog[e].seg)) = 2
        /\ segLog[f].outcome = "miss"
        /\ SegStartOf(segLog[f].seg) = 2000

-----------------------------------------------------------------------------
(* parse_ana on its own: SpecAna.                                          *)

\* The value of each grammatical category in the analyses passed to parse_ana.
CatValue ==
    (CatPos :> Scalar(<< "N" >>)) @@ (CatPosUpper :> Scalar(<< "V" >>))
    @@ (CatCase :> Scalar(<< "c" >>)) @@ (CatNum :> ListOf(<< << "s" >>, << "p" >> >>))

AnaInputs ==
    {Analysis(Scalar(<< "a" >>), << "1" >>, [c \in cats |-> CatValue[c]], NoFields) :
        cats \in SUBSET {CatPos, CatPosUpper, CatCase, CatNum}}

\* No gr_fields_order for the language, or one of these lists.
SettingsChoices ==
    {[configured |-> FALSE, gr_fields_order |-> << >>]}
    \cup {[configured |-> TRUE, gr_fields_order |-> o] :
             o \in {<< >>, << CatCase >>, << CatNum, CatCase >>, << CatPos >>,
                    << CatCase, CatPos >>, << CatNum, CatNum, CatPosUpper >>}}

\* The variables a specification does not use.
Idle(ts, lts, lex, gramm, st) ==
    /\ tiers = ts
    /\ lingTypes = lts
    /\ timeOrder = SlotTimes
    /\ lastUsedAnnotationId = 0
    /\ analyzedSegments = << >>
    /\ addLexTiers = lex
    /\ addGrammTiers = gramm
    /\ settings = st
    /\ tlis = << >>
    /\ tierQueue = << >>
    /\ participantID = 1
    /\ totals = NoTotals
    /\ segQueue = << >>
    /\ iCurAnaSegment = 0

InitAna ==
    /\ \E st \in SettingsChoices : Idle(<< >>, << >>, << >>, << >>, st)
    /\ lastID = 0
    /\ cur = NoTier
    /\ calls = << >>
    /\ segLog = << >>
    /\ anaIn \in AnaInputs
    /\ anaOut = << >>
    /\ pc = "parse_ana"

\* A call of parse_ana(anaIn).
ParseAnaCall ==
    /\ pc = "parse_ana"
    /\ anaOut' = ParseAna(anaIn, settings)
    /\ pc' = "parsed"
    /\ UNCHANGED << docVars, analyzedSegments, addLexTiers, addGrammTiers, settings,
                    lastID, tlis, tierQueue, participantID, totals, cur, segQueue,
                    iCurAnaSegment, calls, segLog, anaIn >>

NextAna == ParseAnaCall

SpecAna == InitAna /\ [][NextAna]_vars

\* The sequences that list every element of the finite set S once.
Orderings(S) ==
    {p \in [1..Cardinality(S) -> S] : \A i, j \in 1..Cardinality(S) : p[i] = p[j] => i = j}

\* The place of a category under the rule of the claim for the list order: its
\* index in the list; before all of them when it is named "pos" (in any case) and
\* not in the list; after all of them otherwise.
ListedRank(c, order) ==
    IF \E i \in 1..Len(order) : order[i] = c
    THEN CHOOSE i \in 1..Len(order) : order[i] = c /\ \A j \in 1..(i - 1) : order[j] # c
    ELSE IF Lower(c) = << "p", "o", "s" >> THEN 0
    ELSE Len(order) + 1

\* The tag string has the values of the categories in the order p.
TagStringIs(p) ==
    anaOut.gramm = Join([i \in 1..Len(p) |-> ValueText(anaIn.gr[p[i]], << ",", " " >>)],
                        << ",", " " >>)

\* The values stand in the order of the rule for the list order; categories of
\* the same place stand in sorted-name order.
TagsInListedOrder(order) ==
    \E p \in Orderings(DOMAIN anaIn.gr) :
        /\ TagStringIs(p)
        /\ \A i, j \in 1..Len(p) :
              i < j =>
                 \/ ListedRank(p[i], order) < ListedRank(p[j], order)
                 \/ /\ ListedRank(p[i], order) = ListedRank(p[j], order)
                    /\ StrLess(p[i], p[j])

\* The values stand in sorted order of the category names.
TagsInNameOrder ==
    \E p \in Orderings(DOMAIN anaIn.gr) :
        /\ TagStringIs(p)
        /\ \A i, j \in 1..Len(p) : i < j => StrLess(p[i], p[j])

\* C8 as claimed: with a configured gr_fields_order, and with no configuration
\* for the language as well (the list is then empty), the value of an unlisted
\* category named "pos" comes first, the listed categories follow by index, the
\* other categories come last in sorted-name order.
C8_PosFirstAlways ==
    pc = "parsed" => TagsInListedOrder(settings.gr_fields_order)

\* C8 as amended: with a configured gr_fields_order the order is as claimed; with
\* no gr_fields_order for the language the values stand in sorted order of the
\* category names, a category named "pos" included.
C8_PosFirstWhenConfigured ==
    pc = "parsed" =>
        IF settings.configured THEN TagsInListedOrder(settings.gr_fields_order)
        ELSE TagsInNameOrder

\* A configured list without "pos" and an analysis with the categories case and
\* pos: the tag string is the value of pos, then the value of case.
C8_Witness ==
    /\ pc = "parsed"
    /\ settings.configured
    /\ settings.gr_fields_order = << CatCase >>
    /\ DOMAIN anaIn.gr = {CatCase, CatPos}
    /\ anaOut.gramm = << "N", ",", " ", "c" >>

-----------------------------------------------------------------------------
(* process_segment on its own: SpecSegment.                                *)

\* The lemma of an analysis: "a", "b", the list ["a", "b"] or the string "a/b".
LexChoices ==
    {Scalar(<< "a" >>), Scalar(<< "b" >>), ListOf(<< << "a" >>, << "b" >> >>),
     Scalar(<< "a", "/", "b" >>)}

\* The i-th analysis of a word has the gloss i, which tells the analyses apart.
AnalysesOf(lexes) ==
    [i \in 1..Len(lexes) |->
        Analysis(lexes[i], << ToString(i) >>, (CatPos :> Scalar(<< "N" >>)),
                 IF i = 1 THEN ("lex2" :> Scalar(<< "x" >>)) ELSE NoFields)]

\* The words handed to process_segment: a token of either kind with up to
\* MaxAnalyses analyses, followed by a punctuation token.
WordChoices ==
    {<< [wf |-> << "w" >>, wtype |-> k, ana |-> AnalysesOf(lexes)],
        [wf |-> << "." >>, wtype |-> "punct", ana |-> << >>] >> :
        k \in {"word", "punct"},
        lexes \in UNION {[1..n -> LexChoices] : n \in 0..MaxAnalyses}}

\* A document with one transcription tier that holds one segment.
OneSegmentDoc == DocTiers(<< [participant |-> "SP1", texts |-> << << "b" >> >>] >>)

\* process_tier has called get_analysis_tiers and is about to call process_segment
\* for the segment a1.
InitSegment ==
    /\ \E lex \in {<< >>, << "lex2" >>} :
          /\ Idle(GetAnalysisTiers(OneSegmentDoc, 1, "SP1", lex, << >>).tiers,
                  CheckTierTypes(DocLingTypes, lex, << >>), lex, << >>,
                  DefaultSettings)
          /\ cur = [GetAnalysisTiers(OneSegmentDoc, 1, "SP1", lex, << >>)
                       EXCEPT !.tiers = << >>]
    /\ lastID = 2
    /\ calls = << >>
    /\ segLog = << >>
    /\ anaIn = << >>
    /\ anaOut = << >>
    /\ pc = "process_segment"

\* A call of process_segment for the segment a1 and the words.
ProcessSegmentCall ==
    /\ pc = "process_segment"
    /\ \E words \in WordChoices :
          /\ tiers' = ProcessSegment(tiers, lastID, "a1", words, cur, settings).tiers
          /\ lastID' = ProcessSegment(tiers, lastID, "a1", words, cur, settings).lastID
          /\ anaIn' = words
    /\ pc' = "processed"
    /\ UNCHANGED << lingTypes, timeOrder, lastUsedAnnotationId, analyzedSegments,
                    addLexTiers, addGrammTiers, settings, tlis, tierQueue,
                    participantID, totals, cur, segQueue, iCurAnaSegment, calls,
                    segLog, anaOut >>

NextSegment == ProcessSegmentCall

SpecSegment == InitSegment /\ [][NextSegment]_vars

\* The annotations under the annotation ref that lie in a tier of the type.
ChildrenIn(ref, type) ==
    {d.a : d \in {c \in ChildrenOf(ref) :
                     TierByUid(tiers, c.tier).LINGUISTIC_TYPE_REF = type}}

\* The lemma string of an analysis: a list-valued lemma joined with '/'.
LemmaString(ana) ==
    IF ana.lex.isList THEN Join(ana.lex.items, << "/" >>) ELSE ana.lex.items[1]

\* The positions of the analyses of the word that have the lemma string.
WithLemma(word, lemma) == {i \in 1..Len(word.ana) : LemmaString(word.ana[i]) = lemma}

\* The k-th smallest element of a set of numbers.
KthOf(I, k) == CHOOSE i \in I : Cardinality({m \in I : m < i}) = k - 1

\* Under the Lemma annotation la of the word: one Grammar annotation per analysis
\* with that lemma, chained in the order of the analyses, each with one
\* Morph-parts annotation under it and one Gloss annotation under that, the
\* gloss being the gloss of the analysis.
TriplesUnder(la, word) ==
    LET G == ChildrenIn(la.ANNOTATION_ID, grammType)
        I == WithLemma(word, la.text)
    IN  /\ Cardinality(G) = Cardinality(I)
        /\ IsChain(G)
        /\ \A k \in 1..Cardinality(G) :
              LET g == ChainElement(G, k)
                  P == ChildrenIn(g.ANNOTATION_ID, partsType)
              IN  /\ Cardinality(P) = 1
                  /\ \A q \in P :
                        /\ q.text = word.ana[KthOf(I, k)].parts
                        /\ Cardinality(ChildrenIn(q.ANNOTATION_ID, glossType)) = 1
                        /\ \A x \in ChildrenIn(q.ANNOTATION_ID, glossType) :
                              x.text = word.ana[KthOf(I, k)].gloss

\* C10: a word of the word kind gets one Lemma annotation per distinct lemma
\* string of its analyses (a list-valued lemma joined with '/'), chained in
\* ascending order of the strings, and under each of them one chained
\* Grammar/Morph-parts/Gloss triple per analysis of the group, in the order of
\* the analyses; a token of another kind gets a Word annotation and no Lemma
\* annotation.
C10_LemmaGrouping ==
    pc = "processed" =>
        /\ Cardinality(ChildrenIn("a1", wordType)) = Len(anaIn)
        /\ \A i \in 1..Len(anaIn) :
              LET w == ChainElement(ChildrenIn("a1", wordType), i)
                  L == ChildrenIn(w.ANNOTATION_ID, lemmaType)
              IN  /\ w.text = anaIn[i].wf
                  /\ anaIn[i].wtype # "word" => ChildrenOf(w.ANNOTATION_ID) = {}
                  /\ anaIn[i].wtype = "word" =>
                        /\ {a.text : a \in L}
                              = {LemmaString(anaIn[i].ana[k]) : k \in 1..Len(anaIn[i].ana)}
                        /\ Cardinality(L) = Cardinality({a.text : a \in L})
                        /\ L # {} => IsChain(L)
                        /\ \A m, n \in 1..Cardinality(L) :
                              m < n => StrLess(ChainElement(L, m).text,
                                               ChainElement(L, n).text)
                        /\ \A la \in L : TriplesUnder(la, anaIn[i])

\* A word whose analyses arrive with the lemmas "b", "a", "b": two Lemma
\* annotations, "a" before "b", and two Grammar annotations under "b".
C10_Witness ==
    /\ pc = "processed"
    /\ anaIn[1].wtype = "word"
    /\ Len(anaIn[1].ana) = 3
    /\ LemmaString(anaIn[1].ana[1]) = << "b" >>
    /\ LemmaString(anaIn[1].ana[2]) = << "a" >>
    /\ LemmaString(anaIn[1].ana[3]) = << "b" >>
    /\ \E w \in ChildrenIn("a1", wordType) :
          /\ Cardinality(ChildrenIn(w.ANNOTATION_ID, lemmaType)) = 2
          /\ \E la \in ChildrenIn(w.ANNOTATION_ID, lemmaType) :
                /\ la.text = << "b" >>
                /\ la.PREVIOUS_ANNOTATION # ""
                /\ Cardinality(ChildrenIn(la.ANNOTATION_ID, grammType)) = 2

-----------------------------------------------------------------------------
(* The tier hierarchy manager on its own: SpecTiers.                       *)

\* What a call of get_analysis_tiers returns: the seven handles.
HandlesOf(h) ==
    [wordTier |-> h.wordTier, lemmaTier |-> h.lemmaTier, grammTier |-> h.grammTier,
     partsTier |-> h.partsTier, glossTier |-> h.glossTier,
     addLexTiers |-> h.addLexTiers, addGrammTiers |-> h.addGrammTiers]

\* One call of the hierarchy manager, with the numbers of TIER elements and of
\* LINGUISTIC_TYPE declarations before and after it.
CallRecord(op, tierNode, participant, ts, lts, handles) ==
    [op |-> op, tierNode |-> tierNode, participant |-> participant,
     tiersBefore |-> Len(tiers), tiersAfter |-> Len(ts),
     typesBefore |-> Len(lingTypes), typesAfter |-> Len(lts), handles |-> handles]

\* The documents of SpecTiers: one or two transcription tiers of one segment.
TierDocChoices ==
    {<< [participant |-> "SP1", texts |-> << << "b" >> >>] >>,
     << [participant |-> "SP1", texts |-> << << "b" >> >>],
        [participant |-> "", texts |-> << << "b" >> >>] >>}

\* The configurations of the side tiers.
LexTierChoices == {<< >>, << "lex2" >>}
GrammTierChoices == {<< >>, << "trans_ru" >>, << "trans_ru", "trans_ru2" >>}

InitTiers ==
    /\ \E doc \in TierDocChoices, lex \in LexTierChoices, gramm \in GrammTierChoices :
          Idle(DocTiers(doc), DocLingTypes, lex, gramm, DefaultSettings)
    /\ lastID = 0
    /\ cur = NoTier
    /\ calls = << >>
    /\ segLog = << >>
    /\ anaIn = << >>
    /\ anaOut = << >>
    /\ pc = "hierarchy"

\* A call of check_tier_types().
CallCheckTierTypes ==
    /\ pc = "hierarchy"
    /\ Len(calls) < MaxCalls
    /\ lingTypes' = CheckTierTypes(lingTypes, addLexTiers, addGrammTiers)
    /\ calls' = Append(calls,
                       CallRecord("check_tier_types", 0, "", tiers,
                                  CheckTierTypes(lingTypes, addLexTiers, addGrammTiers),
                                  HandlesOf(NoTier)))
    /\ UNCHANGED << tiers, timeOrder, lastUsedAnnotationId, analyzedSegments,
                    addLexTiers, addGrammTiers, settings, lastID, tlis, pc, tierQueue,
                    participantID, totals, cur, segQueue, iCurAnaSegment, segLog,
                    anaIn, anaOut >>

\* A call of get_analysis_tiers(tierNode, participant) for a transcription tier.
CallGetAnalysisTiersWith(tierNode, participant, h) ==
    /\ tiers' = h.tiers
    /\ calls' = Append(calls,
                       CallRecord("get_analysis_tiers", tierNode, participant,
                                  h.tiers, lingTypes, HandlesOf(h)))

CallGetAnalysisTiers ==
    /\ pc = "hierarchy"
    /\ Len(calls) < MaxCalls
    /\ \E i \in 1..Len(tiers), participant \in {"SP1", "SP2"} :
          /\ Selected(tiers[i])
          /\ CallGetAnalysisTiersWith(
                 tiers[i].uid, participant,
                 GetAnalysisTiers(tiers, tiers[i].uid, participant, addLexTiers,
                                  addGrammTiers))
    /\ UNCHANGED << lingTypes, timeOrder, lastUsedAnnotationId, analyzedSegments,
                    addLexTiers, addGrammTiers, settings, lastID, tlis, pc, tierQueue,
                    participantID, totals, cur, segQueue, iCurAnaSegment, segLog,
                    anaIn, anaOut >>

NextTiers == CallCheckTierTypes \/ CallGetAnalysisTiers

SpecTiers == InitTiers /\ [][NextTiers]_vars

\* The call j repeats the call i: the same operation for the same base tier and
\* participant.
Repeats(i, j) ==
    /\ i < j
    /\ calls[i].op = calls[j].op
    /\ calls[i].tierNode = calls[j].tierNode
    /\ calls[i].participant = calls[j].participant

\* The call j adds nothing and returns what the call i returned.
AddsNothing(i, j) ==
    /\ calls[j].tiersAfter = calls[j].tiersBefore
    /\ calls[j].typesAfter = calls[j].typesBefore
    /\ calls[j].handles = calls[i].handles

\* C3: a call of get_analysis_tiers or check_tier_types that repeats an earlier
\* call for the same base tier and participant adds no TIER element and no
\* LINGUISTIC_TYPE declaration and returns the tier elements the earlier call
\* returned, whatever the lists of lexical and grammar side tiers are.
C3_HierarchyIdempotent ==
    \A i, j \in 1..Len(calls) : Repeats(i, j) => AddsNothing(i, j)

\* What the code does keep: a repeated call adds no LINGUISTIC_TYPE declaration,
\* and it adds no TIER element and returns the same elements when both lists
\* of side tiers are empty.
HierarchyIdempotentWithoutSideTiers ==
    \A i, j \in 1..Len(calls) :
        Repeats(i, j) =>
            /\ calls[j].typesAfter = calls[j].typesBefore
            /\ (addLexTiers = << >> /\ addGrammTiers = << >>) => AddsNothing(i, j)

-----------------------------------------------------------------------------
(* get_tlis on its own: SpecTlis.                                          *)

\* The k-th slot of a table: without a time value, or with one of three values.
SlotChoices(k) ==
    {UntimedSlot(SlotId(k))} \cup {TimeSlot(SlotId(k), ms) : ms \in {0, 1500, 2000}}

\* The TIME_ORDER tables of 1..MaxSlots slots.
TimeOrderTables ==
    UNION {{t \in [1..n -> UNION {SlotChoices(k) : k \in 1..n}] :
               \A k \in 1..n : t[k] \in SlotChoices(k)} : n \in 1..MaxSlots}

InitTlis ==
    /\ tiers = << >>
    /\ lingTypes = << >>
    /\ timeOrder \in TimeOrderTables
    /\ lastUsedAnnotationId = 0
    /\ analyzedSegments = << >>
    /\ addLexTiers = << >>
    /\ addGrammTiers = << >>
    /\ settings = DefaultSettings
    /\ lastID = 0
    /\ tlis = << >>
    /\ pc = "get_tlis"
    /\ tierQueue = << >>
    /\ participantID = 1
    /\ totals = NoTotals
    /\ cur = NoTier
    /\ segQueue = << >>
    /\ iCurAnaSegment = 0
    /\ calls = << >>
    /\ segLog = << >>
    /\ anaIn = << >>
    /\ anaOut = << >>

\* self.tlis = self.get_tlis(self.eafTree) when get_tlis returns.
GetTlisReturns ==
    /\ pc = "get_tlis"
    /\ ~GetTlisRaises(timeOrder)
    /\ tlis' = GetTlis(timeOrder)
    /\ pc' = "returned"
    /\ UNCHANGED << docVars, analyzedSegments, addLexTiers, addGrammTiers, settings,
                    lastID, tierQueue, participantID, totals, cur, segQueue,
                    iCurAnaSegment, calls, segLog, anaIn, anaOut >>

\* get_tlis raises ValueError and self.tlis is not assigned.
GetTlisRaisesValueError ==
    /\ pc = "get_tlis"
    /\ GetTlisRaises(timeOrder)
    /\ pc' = "ValueError"
    /\ UNCHANGED << docVars, analyzedSegments, addLexTiers, addGrammTiers, settings,
                    lastID, tlis, tierQueue, participantID, totals, cur, segQueue,
                    iCurAnaSegment, calls, segLog, anaIn, anaOut >>

NextTlis == GetTlisReturns \/ GetTlisRaisesValueError

SpecTlis == InitTlis /\ [][NextTlis]_vars

\* The k-th slot of the table has its ordinal and its time in the index: the
\* milliseconds of its TIME_VALUE (the seconds times 1000), 0 without a value.
SlotIndexed(k) ==
    /\ SlotId(k) \in DOMAIN tlis
    /\ tlis[SlotId(k)].n = k - 1
    /\ IF "TIME_VALUE" \in DOMAIN timeOrder[k]
       THEN timeOrder[k].TIME_VALUE = DecimalText(tlis[SlotId(k)].time)
       ELSE tlis[SlotId(k)].time = 0

\* C11: get_tlis never fails; every slot of the table gets its ordinal in table
\* order and its millisecond value divided by 1000, and a slot without a time
\* value gets 0 seconds.
C11_TimeIndexNeverFails ==
    pc # "get_tlis" =>
        /\ pc = "returned"
        /\ \A k \in 1..Len(timeOrder) : SlotIndexed(k)

\* What the code does keep: get_tlis fails exactly for the tables with a slot
\* without a time value, and indexes every slot of the other tables.
TimeIndexOfTimedTables ==
    /\ pc = "ValueError" <=>
          (pc # "get_tlis" /\ \E k \in 1..Len(timeOrder) :
                                 "TIME_VALUE" \notin DOMAIN timeOrder[k])
    /\ pc = "returned" => \A k \in 1..Len(timeOrder) : SlotIndexed(k)

-----------------------------------------------------------------------------
(* Tier identifiers (get_analysis_tiers called by add_analyses), in Spec.  *)

\* The positions of the TIER elements with the identifier id.
TiersNamed(id) == {i \in 1..Len(tiers) : tiers[i].TIER_ID = id}

\* C12: the tier identifiers of the document, pairwise distinct before
\* add_analyses, are pairwise distinct at every point of it and after it, whatever
\* the participant labels of the selected tiers are, and the PARENT_REF of every
\* created tier names exactly one tier.
C12_TierIdsUnique ==
    \A i \in 1..Len(tiers) :
        /\ TiersNamed(tiers[i].TIER_ID) = {i}
        /\ tiers[i].PARENT_REF # "" => Cardinality(TiersNamed(tiers[i].PARENT_REF)) = 1

\* What the code does keep: the identifiers are distinct as long as the labels
\* the Word tiers were created with are.
TierIdsUniqueForDistinctLabels ==
    (\A i, j \in 1..Len(tiers) :
        (/\ i # j
         /\ tiers[i].LINGUISTIC_TYPE_REF = wordType
         /\ tiers[j].LINGUISTIC_TYPE_REF = wordType)
            => tiers[i].PARTICIPANT # tiers[j].PARTICIPANT)
        => C12_TierIdsUnique

-----------------------------------------------------------------------------
(* The order of the annotations in the analysis tiers, in Spec.            *)

\* The tiers get_analysis_tiers created: those that hang under another tier.
CreatedTiers == {i \in 1..Len(tiers) : tiers[i].PARENT_REF # ""}

\* The annotations s[from..to] stand in ascending order of their identifiers.
Ascending(s, from, to) ==
    \A p, q \in from..to : p < q => IdNum(s[p].ANNOTATION_ID) < IdNum(s[q].ANNOTATION_ID)

\* C13: every annotation process_segment adds to an analysis tier stands after
\* the annotations that were in the tier before it, so the annotations of every
\* created tier stand in the order of their creation, which is the ascending
\* order of their identifiers.
C13_AnnotationsAppended ==
    \A i \in CreatedTiers : Ascending(tiers[i].annos, 1, Len(tiers[i].annos))

\* What the code does keep: insert(-1, el) puts the annotation before the last
\* one, so the annotation created first stays last in its tier and the others
\* stand before it in the order of their creation.
FirstCreatedStaysLast ==
    \A i \in CreatedTiers :
        /\ Ascending(tiers[i].annos, 1, Len(tiers[i].annos) - 1)
        /\ \A p \in 1..(Len(tiers[i].annos) - 1) :
              IdNum(tiers[i].annos[Len(tiers[i].annos)].ANNOTATION_ID)
                  < IdNum(tiers[i].annos[p].ANNOTATION_ID)

====
